---- MODULE Spec2Model ----
(***************************************************************************)
(* State-machine model of the bacteria-client front end (App component).   *)
(*                                                                         *)
(* The component of src/unnamed/part_000, lines 145-427, is the variant    *)
(* modelled (result URLs for SVG and EMF, labels, loading flag).           *)
(* src/src/App.tsx is the same component without the labels, the loading   *)
(* flag and the second result URL; its handlers are line-for-line the same *)
(* on the fields both have.                                                *)
(*                                                                         *)
(* One action is one run of a callback on the single UI thread: a handler  *)
(* from its start to its first await, or the continuation that runs when   *)
(* an awaited promise settles.  All setState calls of one such run are     *)
(* applied together before another callback runs.                          *)
(***************************************************************************)
EXTENDS Integers, Sequences, FiniteSets, Bags, TLC

(***************************************************************************)
(* Bounds of the model.                                                    *)
(***************************************************************************)
\* how many of the category buttons (in clickOrder) the user clicks
MaxTypes == 2
\* how many of the sample uploads (in sampleFiles) the user picks from
MaxSampleFiles == 3
\* extractGroups calls suspended in `await file.arrayBuffer()` at one time
MaxPendingReads == 1
\* fetches outstanding at one time
MaxPendingRequests == 2
\* how many of the sample label texts (in sampleLabels) the user types
MaxLabelInputs == 1
\* length of the texts of the title and axis-label inputs that a request is built from
MaxLabelLen == 3
\* rows and columns of the sheets of InferSpec
MaxRows == 3
MaxCols == 2

(***************************************************************************)
(* JavaScript values.                                                      *)
(***************************************************************************)
null == [kind |-> "null"]

\* a cell of a parsed row: a string, a number, or undefined (no such key)
Str(s) == [kind |-> "string", s |-> s, n |-> 0]
Num(n) == [kind |-> "number", s |-> "", n |-> n]
undefined == [kind |-> "undefined", s |-> "", n |-> 0]

\* Boolean(v), the predicate of .filter(Boolean): "", 0 and undefined are falsy
Boolean(v) ==
    CASE v.kind = "string" -> v.s # ""
      [] v.kind = "number" -> v.n # 0
      [] OTHER -> FALSE

\* String(n) for the numbers of the model
NumberToString(n) ==
    CASE n = 0 -> "0"
      [] n = 1 -> "1"
      [] n = 2 -> "2"
      [] OTHER -> "NaN"

\* the property key of initialColors[option]: a number key is its decimal string
ToPropertyKey(v) ==
    CASE v.kind = "string" -> v.s
      [] v.kind = "number" -> NumberToString(v.n)
      [] OTHER -> "undefined"

\* String.prototype.toLowerCase on the header texts of the model
toLowerCase(s) ==
    CASE s = "Group" -> "group"
      [] s = "GROUP" -> "group"
      [] s = "Sample" -> "sample"
      [] s = "Sample Name" -> "sample name"
      [] s = "Compound" -> "compound"
      [] s = "Value" -> "value"
      [] s = "Point" -> "point"
      [] OTHER -> s

\* a string of the label inputs is a sequence of characters
\* String.prototype.trim: drop leading and trailing white space
RECURSIVE trimStart(_)
trimStart(s) == IF s # <<>> /\ Head(s) = " " THEN trimStart(Tail(s)) ELSE s

RECURSIVE trimEnd(_)
trimEnd(s) ==
    IF s # <<>> /\ s[Len(s)] = " " THEN trimEnd(SubSeq(s, 1, Len(s) - 1)) ELSE s

trim(s) == trimEnd(trimStart(s))

(***************************************************************************)
(* Schema registry.                                                        *)
(***************************************************************************)
analysisTypes ==
    << "QLF", "Hyperspectral", "16S", "LFC", "pH",
       "CFU", "AlphaDiversity", "BetaDiversity", "LSMS",
       "Correlations", "FluorescenceOverTime", "ControlVsFn", "SMDI" >>

chartTypes(type) ==
    CASE type = "QLF" -> << "bar", "heatmap" >>
      [] type = "Hyperspectral" -> << "lines" >>
      [] type = "16S" -> << "bar", "pie", "heatmap" >>
      [] type = "LFC" -> << "bar", "heatmap" >>
      [] type = "pH" -> << "boxplot", "line" >>
      [] type = "CFU" -> << "line", "bar" >>
      [] type = "AlphaDiversity" -> << "boxplot" >>
      [] type = "BetaDiversity" -> << "scatter" >>
      [] type = "LSMS" -> << "bar", "pca" >>
      [] type = "Correlations" -> << "scatter_reg" >>
      [] type = "FluorescenceOverTime" -> << "line", "surface" >>
      [] type = "ControlVsFn" -> << "grouped_bar", "violin" >>
      [] type = "SMDI" -> << "boxplot", "bar" >>

Range(s) == { s[i] : i \in DOMAIN s }

(***************************************************************************)
(* Group inference (the body of extractGroups after the sheet is parsed).  *)
(***************************************************************************)
groupCandidates ==
    << "group", "taxon name", "wavelength (nm)", "wavelength", "compound", "sample" >>

\* a parsed row is [keys |-> headers in column order, vals |-> their cells]
ObjectKeys(row) == row.keys

\* row[col]
Get(row, col) ==
    IF \E i \in DOMAIN row.keys : row.keys[i] = col
    THEN row.vals[CHOOSE i \in DOMAIN row.keys : row.keys[i] = col]
    ELSE undefined

\* groupCandidates.includes(x)
includes(list, x) == \E i \in DOMAIN list : list[i] = x

\* availableColumns.find((col, idx) => groupCandidates.includes(normalizedColumns[idx])),
\* scanning from index idx; "" stands for the undefined of an unsuccessful find
RECURSIVE find(_, _, _)
find(availableColumns, normalizedColumns, idx) ==
    IF idx > Len(availableColumns) THEN ""
    ELSE IF includes(groupCandidates, normalizedColumns[idx]) THEN availableColumns[idx]
    ELSE find(availableColumns, normalizedColumns, idx + 1)

\* the first candidate, in candidate order, that some header matches
RECURSIVE findByCandidate(_, _)
findByCandidate(firstRow, c) ==
    IF c > Len(groupCandidates) THEN ObjectKeys(firstRow)[1]
    ELSE IF \E i \in DOMAIN firstRow.keys : toLowerCase(firstRow.keys[i]) = groupCandidates[c]
    THEN firstRow.keys[CHOOSE i \in DOMAIN firstRow.keys :
                          toLowerCase(firstRow.keys[i]) = groupCandidates[c]]
    ELSE findByCandidate(firstRow, c + 1)

\* selectColumn scanning the candidates instead of the headers
selectColumnByCandidateOrder(firstRow) == findByCandidate(firstRow, 1)

\* lines 221-231: the grouping column of a non-empty row set
selectColumn(firstRow) ==
    LET availableColumns == ObjectKeys(firstRow)
        normalizedColumns ==
            [i \in DOMAIN availableColumns |-> toLowerCase(availableColumns[i])]
        selectedColumn == find(availableColumns, normalizedColumns, 1)
    IN  IF selectedColumn = "" THEN availableColumns[1] ELSE selectedColumn

\* Array.from(new Set(list)): first occurrences, in order
RECURSIVE uniqueFrom(_, _)
uniqueFrom(list, seen) ==
    IF list = <<>> THEN seen
    ELSE uniqueFrom(Tail(list),
                    IF includes(seen, Head(list)) THEN seen ELSE Append(seen, Head(list)))

\* uniqueOptions without the .filter(Boolean)
uniqueOptionsUnfiltered(jsonData, type) ==
    IF type \in {"ControlVsFn", "AlphaDiversity", "BetaDiversity", "SMDI"}
    THEN << Str("Control"), Str("Fn") >>
    ELSE IF type = "Correlations"
    THEN << Str("scatter"), Str("line") >>
    ELSE LET selectedColumn == selectColumn(jsonData[1])
             mapped == [i \in DOMAIN jsonData |-> Get(jsonData[i], selectedColumn)]
         IN  uniqueFrom(mapped, <<>>)

\* lines 233-243: uniqueOptions for a non-empty jsonData under category `type`
uniqueOptionsOf(jsonData, type) ==
    IF type \in {"ControlVsFn", "AlphaDiversity", "BetaDiversity", "SMDI"}
    THEN << Str("Control"), Str("Fn") >>
    ELSE IF type = "Correlations"
    THEN << Str("scatter"), Str("line") >>
    ELSE LET selectedColumn == selectColumn(jsonData[1])
             mapped == [i \in DOMAIN jsonData |-> Get(jsonData[i], selectedColumn)]
         IN  uniqueFrom(SelectSeq(mapped, Boolean), <<>>)

\* lines 247-250: initialColors
initialColorsOf(uniqueOptions) ==
    [k \in { ToPropertyKey(uniqueOptions[i]) : i \in DOMAIN uniqueOptions } |-> "#000000"]

emptyObject == [k \in {} |-> ""]

(***************************************************************************)
(* Inputs of the user and of the environment.                              *)
(***************************************************************************)
\* the order in which the bounded user reaches for the category buttons:
\* one category of each branch of extractGroups first
clickOrder ==
    << "QLF", "ControlVsFn", "Correlations", "pH", "SMDI", "AlphaDiversity",
       "BetaDiversity", "LSMS", "16S", "LFC", "CFU", "Hyperspectral",
       "FluorescenceOverTime" >>

Min(a, b) == IF a < b THEN a ELSE b

ClickedTypes == { clickOrder[i] : i \in 1..Min(MaxTypes, Len(clickOrder)) }

\* a File with what the spreadsheet reader makes of it: readable = FALSE when
\* file.arrayBuffer() or XLSX.read throws, else jsonData is the first sheet's rows
File(name, readable, jsonData) ==
    [kind |-> "File", name |-> name, readable |-> readable, jsonData |-> jsonData]

Row(keys, vals) == [keys |-> keys, vals |-> vals]

sampleFiles ==
    << File("groups.xlsx", TRUE,
            << Row(<<"Point", "Group">>, <<Str("p1"), Str("a")>>),
               Row(<<"Point", "Group">>, <<Str("p2"), Str("b")>>),
               Row(<<"Point", "Group">>, <<Str("p3"), Str("a")>>) >>),
       File("empty.xlsx", TRUE, << >>),
       File("broken.xlsx", FALSE, << >>),
       File("numbers.xlsx", TRUE,
            << Row(<<"Value", "Point">>, <<Num(1), Str("p")>>),
               Row(<<"Point">>, <<Str("q")>>),
               Row(<<"Value", "Point">>, <<Str("1"), Str("p")>>),
               Row(<<"Value", "Point">>, <<Num(0), Str("p")>>) >>),
       File("compound.xlsx", TRUE,
            << Row(<<"Compound", "Sample">>, <<Str("c"), Str("")>>) >>) >>

SessionFiles == { sampleFiles[i] : i \in 1..Min(MaxSampleFiles, Len(sampleFiles)) }

\* colours the colour picker may return
PickerColors == { "#ff0000" }

\* texts typed into the title and axis-label inputs
sampleLabels == << <<" ", "x", " ">>, <<" ">>, <<"x", " ", "y">> >>

LabelInputs ==
    { <<>> } \cup { sampleLabels[i] : i \in 1..Min(MaxLabelInputs, Len(sampleLabels)) }

\* JSON bodies of a 2xx response
Bodies == { [img_svg |-> "/static/chart.svg", img_emf |-> "/static/chart.emf"] }

\* values of Date.now()
Timestamps == { 1, 2 }

\* `https://bacteria-server-2.onrender.com${path}?t=${t}`
Url(path, t) == [kind |-> "url", origin |-> "https://bacteria-server-2.onrender.com",
                 path |-> path, t |-> t]

errorMessage == "ERROR: Maybe the file is wrong or data is missing?"

(***************************************************************************)
(* State.                                                                  *)
(***************************************************************************)
VARIABLES
    selected,       \* useState(analysisTypes[0])
    file,           \* useState<File | null>(null)
    imageSvgUrl,    \* useState<string | null>(null)
    imageEmfUrl,    \* useState<string | null>(null)
    error,          \* useState('')
    groups,         \* useState<string[]>([])
    colors,         \* useState<Record<string, string>>({})
    customTitle,    \* useState('')
    xLabel,         \* useState('')
    yLabel,         \* useState('')
    loading,        \* useState(false)
    reads,          \* bag of extractGroups calls suspended in `await file.arrayBuffer()`:
                    \* [file |-> the parameter, selected |-> `selected` of the closure]
    fetches,        \* number of handleCreateChart calls suspended in `await fetch(...)`
    sent,           \* the FormData posted by the last step (<<>> when it posted none)
    lastEvent       \* the callback run by the last step and its input: [op, arg]

session ==
    << selected, file, imageSvgUrl, imageEmfUrl, error, groups, colors,
       customTitle, xLabel, yLabel, loading >>

vars == << selected, file, imageSvgUrl, imageEmfUrl, error, groups, colors,
           customTitle, xLabel, yLabel, loading, reads, fetches, sent, lastEvent >>

\* what the step's record keeps of the state the callback started in
Event(op, arg) == [op |-> op, arg |-> arg]

Init ==
    /\ selected = analysisTypes[1]
    /\ file = null
    /\ imageSvgUrl = null
    /\ imageEmfUrl = null
    /\ error = ""
    /\ groups = << >>
    /\ colors = emptyObject
    /\ customTitle = << >>
    /\ xLabel = << >>
    /\ yLabel = << >>
    /\ loading = FALSE
    /\ reads = EmptyBag
    /\ fetches = 0
    /\ sent = << >>
    /\ lastEvent = Event("mount", null)

(***************************************************************************)
(* handleFileChange and extractGroups.                                     *)
(***************************************************************************)
\* handleFileChange up to `await file.arrayBuffer()` in extractGroups; f = null is a
\* change event without a file (e.target.files empty)
handleFileChange(f) ==
    /\ error' = ""
    /\ IF f # null
       THEN /\ BagCardinality(reads) < MaxPendingReads
            /\ file' = f
            /\ reads' = reads (+) SetToBag({ [file |-> f, selected |-> selected] })
       ELSE UNCHANGED << file, reads >>
    /\ sent' = << >>
    /\ lastEvent' = Event("handleFileChange", f # null)
    /\ UNCHANGED << selected, imageSvgUrl, imageEmfUrl, groups, colors,
                    customTitle, xLabel, yLabel, loading, fetches >>

\* the reader throws: the promise of extractGroups rejects, nobody catches it
extractGroupsThrows(r) ==
    /\ ~r.file.readable
    /\ UNCHANGED session

\* lines 216-219: the empty row set
extractGroupsEmpty(r) ==
    /\ r.file.readable
    /\ Len(r.file.jsonData) = 0
    /\ groups' = << >>
    /\ UNCHANGED << selected, file, imageSvgUrl, imageEmfUrl, error, colors,
                    customTitle, xLabel, yLabel, loading >>

\* lines 221-251: inference under the `selected` of the closure the call was made in
extractGroupsInfers(r) ==
    /\ r.file.readable
    /\ Len(r.file.jsonData) # 0
    /\ LET uniqueOptions == uniqueOptionsOf(r.file.jsonData, r.selected)
       IN  /\ groups' = uniqueOptions
           /\ colors' = initialColorsOf(uniqueOptions)
    /\ UNCHANGED << selected, file, imageSvgUrl, imageEmfUrl, error,
                    customTitle, xLabel, yLabel, loading >>

\* extractGroups from the moment file.arrayBuffer() settles to its end
extractGroups(r) ==
    /\ BagIn(r, reads)
    /\ reads' = reads (-) SetToBag({ r })
    /\ \/ extractGroupsThrows(r)
       \/ extractGroupsEmpty(r)
       \/ extractGroupsInfers(r)
    /\ sent' = << >>
    /\ lastEvent' = Event("extractGroups", r)
    /\ UNCHANGED fetches

(***************************************************************************)
(* Colour and label inputs.                                                *)
(***************************************************************************)
\* {[group]: color}: the new entry without the spread of prev
spreadNothing(prev, key, value) == [k \in { key } |-> value]

\* {...prev, [group]: color}
spread(prev, key, value) ==
    [k \in DOMAIN prev \cup { key } |-> IF k = key THEN value ELSE prev[k]]

\* the colour input of `group`, rendered when file && groups.length > 0
handleColorChange(group, color) ==
    /\ file # null
    /\ Len(groups) > 0
    /\ includes(groups, group)
    /\ colors' = spread(colors, ToPropertyKey(group), color)
    /\ sent' = << >>
    /\ lastEvent' = Event("handleColorChange", << group, color >>)
    /\ UNCHANGED << selected, file, imageSvgUrl, imageEmfUrl, error, groups,
                    customTitle, xLabel, yLabel, loading, reads, fetches >>

\* the three text inputs, rendered when file
setCustomTitle(value) ==
    /\ file # null
    /\ customTitle' = value
    /\ sent' = << >>
    /\ lastEvent' = Event("setCustomTitle", null)
    /\ UNCHANGED << selected, file, imageSvgUrl, imageEmfUrl, error, groups, colors,
                    xLabel, yLabel, loading, reads, fetches >>

setXLabel(value) ==
    /\ file # null
    /\ xLabel' = value
    /\ sent' = << >>
    /\ lastEvent' = Event("setXLabel", null)
    /\ UNCHANGED << selected, file, imageSvgUrl, imageEmfUrl, error, groups, colors,
                    customTitle, yLabel, loading, reads, fetches >>

setYLabel(value) ==
    /\ file # null
    /\ yLabel' = value
    /\ sent' = << >>
    /\ lastEvent' = Event("setYLabel", null)
    /\ UNCHANGED << selected, file, imageSvgUrl, imageEmfUrl, error, groups, colors,
                    customTitle, xLabel, loading, reads, fetches >>

(***************************************************************************)
(* handleCreateChart.                                                      *)
(***************************************************************************)
entry(name, value) == [name |-> name, value |-> value]

\* formData.append(name, text) when text is truthy: no trim
appendUntrimmed(formData, name, text) ==
    IF text # << >> THEN Append(formData, entry(name, text)) ELSE formData

\* formData.append(name, text.trim()) when text.trim() is truthy
appendTrimmed(formData, name, text) ==
    IF trim(text) # << >> THEN Append(formData, entry(name, trim(text))) ELSE formData

\* the form data of a handler that kept the `selected` of the first render
formDataOfFirstRender(chartType) ==
    LET base == << entry("file", file),
                   entry("analysis_type", analysisTypes[1]),
                   entry("chart_type", chartType),
                   entry("colors", colors) >>
    IN  appendTrimmed(appendTrimmed(appendTrimmed(base, "custom_title", customTitle),
                                    "x_label", xLabel),
                      "y_label", yLabel)

\* lines 265-272; JSON.stringify(colors) is kept as the mapping it encodes
formDataOf(chartType) ==
    LET base == << entry("file", file),
                   entry("analysis_type", selected),
                   entry("chart_type", chartType),
                   entry("colors", colors) >>
    IN  appendTrimmed(appendTrimmed(appendTrimmed(base, "custom_title", customTitle),
                                    "x_label", xLabel),
                      "y_label", yLabel)

\* handleCreateChart without its guard
noFileIgnored == FALSE

\* line 263: `if (!file) return`
noFile == file = null

\* handleCreateChart up to `await fetch(...)`; the buttons offer chartTypes[selected].
\* The buttons of this variant are rendered when file, those of handleAskBE
\* (lines 122-128) always: the handler is taken to be callable in every state
\* and its own guard decides.
handleCreateChart(chartType) ==
    /\ includes(chartTypes(selected), chartType)
    /\ IF noFile
       THEN UNCHANGED << loading, fetches >> /\ sent' = << >>
       ELSE /\ fetches < MaxPendingRequests
            /\ sent' = formDataOf(chartType)
            /\ loading' = TRUE
            /\ fetches' = fetches + 1
    /\ lastEvent' = Event("handleCreateChart", chartType)
    /\ UNCHANGED << selected, file, imageSvgUrl, imageEmfUrl, error, groups, colors,
                    customTitle, xLabel, yLabel, reads >>

\* a success path that also empties the three label inputs, as handleClean does
createChartResolvesResetsLabels(data, t1, t2) ==
    /\ fetches > 0
    /\ fetches' = fetches - 1
    /\ imageSvgUrl' = Url(data.img_svg, t1)
    /\ imageEmfUrl' = Url(data.img_emf, t2)
    /\ error' = ""
    /\ loading' = FALSE
    /\ customTitle' = << >>
    /\ xLabel' = << >>
    /\ yLabel' = << >>
    /\ sent' = << >>
    /\ lastEvent' = Event("createChartResolves",
                           [data |-> data, errorBefore |-> error,
                            resultBefore |-> << imageSvgUrl, imageEmfUrl >>])
    /\ UNCHANGED << selected, file, groups, colors, reads >>

\* the success path without setError(''), as handleAskBE (lines 70-71) has it
createChartResolvesKeepsError(data, t1, t2) ==
    /\ fetches > 0
    /\ fetches' = fetches - 1
    /\ imageSvgUrl' = Url(data.img_svg, t1)
    /\ imageEmfUrl' = Url(data.img_emf, t2)
    /\ loading' = FALSE
    /\ sent' = << >>
    /\ lastEvent' = Event("createChartResolves",
                           [data |-> data, errorBefore |-> error,
                            resultBefore |-> << imageSvgUrl, imageEmfUrl >>])
    /\ UNCHANGED << selected, file, error, groups, colors, customTitle, xLabel, yLabel,
                    reads >>

\* lines 287-292 and 296: res.ok, the body parses to `data`; the two Date.now()
\* calls return t1 and then t2
createChartResolves(data, t1, t2) ==
    /\ fetches > 0
    /\ fetches' = fetches - 1
    /\ imageSvgUrl' = Url(data.img_svg, t1)
    /\ imageEmfUrl' = Url(data.img_emf, t2)
    /\ error' = ""
    /\ loading' = FALSE
    /\ sent' = << >>
    /\ lastEvent' = Event("createChartResolves",
                           [data |-> data, errorBefore |-> error,
                            resultBefore |-> << imageSvgUrl, imageEmfUrl >>])
    /\ UNCHANGED << selected, file, groups, colors, customTitle, xLabel, yLabel, reads >>

\* the catch block without the finally block: setLoading(false) is not reached
createChartFailsKeepsLoading(reason) ==
    /\ fetches > 0
    /\ fetches' = fetches - 1
    /\ error' = errorMessage
    /\ sent' = << >>
    /\ lastEvent' = Event("createChartFails", null)
    /\ UNCHANGED << selected, file, imageSvgUrl, imageEmfUrl, groups, colors,
                    customTitle, xLabel, yLabel, loading, reads >>

\* lines 293-296: fetch rejects, !res.ok, or res.json() rejects
createChartFails(reason) ==
    /\ fetches > 0
    /\ fetches' = fetches - 1
    /\ error' = errorMessage
    /\ loading' = FALSE
    /\ sent' = << >>
    /\ lastEvent' = Event("createChartFails", null)
    /\ UNCHANGED << selected, file, imageSvgUrl, imageEmfUrl, groups, colors,
                    customTitle, xLabel, yLabel, reads >>

(***************************************************************************)
(* handleClean and the category buttons.                                   *)
(***************************************************************************)
\* handleClean without the three label resets (handleClean of App.tsx, lines 142-149)
cleanKeepsLabels ==
    /\ file' = null
    /\ imageSvgUrl' = null
    /\ imageEmfUrl' = null
    /\ error' = ""
    /\ groups' = << >>
    /\ colors' = emptyObject
    /\ UNCHANGED << xLabel, yLabel, customTitle >>

\* handleClean as it was before groups and colors existed (lines 77-82)
cleanKeepsGroups ==
    /\ file' = null
    /\ imageSvgUrl' = null
    /\ imageEmfUrl' = null
    /\ error' = ""
    /\ xLabel' = << >>
    /\ yLabel' = << >>
    /\ customTitle' = << >>
    /\ UNCHANGED << groups, colors >>

\* the setState calls of handleClean, lines 301-309
clean ==
    /\ file' = null
    /\ imageSvgUrl' = null
    /\ imageEmfUrl' = null
    /\ error' = ""
    /\ xLabel' = << >>
    /\ yLabel' = << >>
    /\ customTitle' = << >>
    /\ groups' = << >>
    /\ colors' = emptyObject

\* the X next to the file name, rendered when file
handleClean ==
    /\ file # null
    /\ clean
    /\ sent' = << >>
    /\ lastEvent' = Event("handleClean", null)
    /\ UNCHANGED << selected, loading, reads, fetches >>

\* onClick of a category button: setSelected(type); handleClean()
selectCategory(type) ==
    /\ selected' = type
    /\ clean
    /\ sent' = << >>
    /\ lastEvent' = Event("selectCategory", type)
    /\ UNCHANGED << loading, reads, fetches >>

(***************************************************************************)
(* The session.                                                            *)
(***************************************************************************)
FailureReasons == { "network", "status", "json" }

Next ==
    \/ \E f \in SessionFiles \cup { null } : handleFileChange(f)
    \/ \E r \in BagToSet(reads) : extractGroups(r)
    \/ \E i \in DOMAIN groups, c \in PickerColors : handleColorChange(groups[i], c)
    \/ \E i \in DOMAIN chartTypes(selected) : handleCreateChart(chartTypes(selected)[i])
    \/ \E d \in Bodies, t1 \in Timestamps, t2 \in Timestamps :
          t1 <= t2 /\ createChartResolves(d, t1, t2)
    \/ \E reason \in FailureReasons : createChartFails(reason)
    \/ handleClean
    \/ \E type \in ClickedTypes : selectCategory(type)

Spec == Init /\ [][Next]_vars

(***************************************************************************)
(* Group inference on its own: every category and a bounded family of      *)
(* sheets, each taken at the moment its upload sits in file.arrayBuffer(). *)
(***************************************************************************)
InferHeaders == { "Sample", "GROUP", "Value", "Sample Name" }

\* cells of the one-row sheets and of the sheets of several rows
ColumnCells == { Str("a"), Str(""), Num(0) }

RowCells == { Str("a"), Str("b"), Num(0) }

\* the header lists of n distinct columns
HeaderLists(n) ==
    { h \in [1..n -> InferHeaders] : \A i, j \in 1..n : i # j => h[i] # h[j] }

\* the row sheet_to_json makes of a sheet row: a cell that is undefined has no key
RowOf(h, cells) ==
    LET present(i) == cells[i] # undefined
        idx == SelectSeq([i \in 1..Len(h) |-> i], present)
    IN  Row([i \in DOMAIN idx |-> h[idx[i]]], [i \in DOMAIN idx |-> cells[idx[i]]])

\* first rows (every header has a cell) and later rows (cells may be missing; a
\* blank row is skipped by the reader)
FirstRows(h, cells) == { Row(h, v) : v \in [1..Len(h) -> cells] }

LaterRows(h, cells) ==
    { RowOf(h, v) : v \in [1..Len(h) -> cells \cup { undefined }] }
        \ { Row(<< >>, << >>) }

\* one-row sheets over every header list of up to MaxCols columns
ColumnFiles ==
    UNION { UNION { { File("columns.xlsx", TRUE, << r >>) : r \in FirstRows(h, ColumnCells) }
                    : h \in HeaderLists(n) } : n \in 1..MaxCols }

\* sheets of up to MaxRows rows over three header lists: a candidate in the
\* second column, no candidate at all, a single candidate column
rowHeaderLists == { << "Value", "Sample" >>, << "Sample Name", "Value" >>, << "GROUP" >> }

RowSeqs(h, k) ==
    { rows \in [1..k -> LaterRows(h, RowCells)] : rows[1] \in FirstRows(h, RowCells) }

\* f is one of the sheets the inference is applied to
InferFile(f) ==
    \/ f \in ColumnFiles
    \/ \E h \in rowHeaderLists, k \in 1..MaxRows :
          \E rows \in RowSeqs(h, k) : f = File("rows.xlsx", TRUE, rows)
    \/ f \in { File("empty.xlsx", TRUE, << >>), File("broken.xlsx", FALSE, << >>) }

InferInit ==
    /\ selected \in Range(analysisTypes)
    /\ InferFile(file)
    /\ imageSvgUrl = null
    /\ imageEmfUrl = null
    /\ error = ""
    /\ groups = << >>
    /\ colors = emptyObject
    /\ customTitle = << >>
    /\ xLabel = << >>
    /\ yLabel = << >>
    /\ loading = FALSE
    /\ reads = SetToBag({ [file |-> file, selected |-> selected] })
    /\ fetches = 0
    /\ sent = << >>
    /\ lastEvent = Event("handleFileChange", TRUE)

InferNext == \E r \in BagToSet(reads) : extractGroups(r)

InferSpec == InferInit /\ [][InferNext]_vars

(***************************************************************************)
(* Properties.                                                             *)
(***************************************************************************)
Ran(op) == lastEvent.op = op

noResult == imageSvgUrl = null /\ imageEmfUrl = null

\* C1: a click on a category button, in whatever state it is made, leaves the
\* clicked category active and file, groups, colours, error and result URLs all
\* cleared by that one step.
C1_CategorySwitchClearsAll ==
    Ran("selectCategory") =>
        /\ selected = lastEvent.arg
        /\ file = null
        /\ groups = << >>
        /\ colors = emptyObject
        /\ error = ""
        /\ noResult

\* a category switch made while a file read and a chart request are in flight
C1_Witness ==
    /\ Ran("selectCategory")
    /\ selected # analysisTypes[1]
    /\ reads # EmptyBag
    /\ fetches > 0

\* C2: after a failed chart request the error is set, the loading flag is
\* cleared and no result URL remains stored.
C2_FailureClearsResult ==
    Ran("createChartFails") =>
        /\ error # ""
        /\ loading = FALSE
        /\ noResult

\* C3: after a successful chart request the error is empty, the loading flag is
\* cleared and both result URLs are built from the paths of that response.
C3_SuccessStoresResult ==
    Ran("createChartResolves") =>
        /\ error = ""
        /\ loading = FALSE
        /\ imageSvgUrl # null
        /\ imageEmfUrl # null
        /\ imageSvgUrl.path = lastEvent.arg.data.img_svg
        /\ imageEmfUrl.path = lastEvent.arg.data.img_emf

\* a success that arrives while the error of an earlier failure is shown
C3_Witness ==
    /\ Ran("createChartResolves")
    /\ lastEvent.arg.errorBefore = errorMessage

\* C4: a chart-button click made while no file is present posts nothing, starts
\* no fetch and changes no field of the session.
C4_NoFileNoRequest ==
    [][ (lastEvent'.op = "handleCreateChart" /\ file = null) =>
            /\ session' = session
            /\ sent' = << >>
            /\ fetches' = fetches
            /\ reads' = reads ]_vars

\* a click without a file while an earlier request is still outstanding
C4_Witness ==
    /\ Ran("handleCreateChart")
    /\ file = null
    /\ loading = TRUE
    /\ fetches > 0

\* the property keys of a group list
KeysOf(list) == { ToPropertyKey(list[i]) : i \in DOMAIN list }

\* C5: in every state the keys of the colour assignment are among the groups.
C5_ColorKeysAreGroups == DOMAIN colors \subseteq KeysOf(groups)

\* C6: when an inference has completed, the colour assignment has exactly one
\* entry per group of the new list, each "#000000", and nothing else.
C6_ColorsSeededFromGroups ==
    (Ran("extractGroups") /\ lastEvent.arg.file.readable) =>
        /\ DOMAIN colors = KeysOf(groups)
        /\ Cardinality(DOMAIN colors) = Len(groups)
        /\ \A k \in DOMAIN colors : colors[k] = "#000000"

FixedControlFn == { "ControlVsFn", "AlphaDiversity", "BetaDiversity", "SMDI" }

\* C7: under ControlVsFn, AlphaDiversity, BetaDiversity and SMDI a completed
\* inference leaves the groups ["Control", "Fn"], whatever the sheet holds.
C7_ControlFnAlways ==
    (/\ Ran("extractGroups")
     /\ lastEvent.arg.file.readable
     /\ lastEvent.arg.selected \in FixedControlFn) =>
        groups = << Str("Control"), Str("Fn") >>

\* C8: under Correlations a completed inference leaves the groups
\* ["scatter", "line"], whatever the sheet holds.
C8_CorrelationsAlways ==
    (/\ Ran("extractGroups")
     /\ lastEvent.arg.file.readable
     /\ lastEvent.arg.selected = "Correlations") =>
        groups = << Str("scatter"), Str("line") >>

\* the candidate names, as a set
CandidateNames ==
    { "group", "taxon name", "wavelength (nm)", "wavelength", "compound", "sample" }

\* the first header, in file order, whose lower-case form is a candidate name;
\* the first header when there is none
FirstCandidateHeader(keys) ==
    LET hits == { i \in DOMAIN keys : toLowerCase(keys[i]) \in CandidateNames }
    IN  IF hits = {} THEN keys[1]
        ELSE keys[CHOOSE i \in hits : \A j \in hits : i <= j]

\* the cell of `row` under header `col`, undefined when the row has no such header
CellOf(row, col) ==
    LET at == { i \in DOMAIN row.keys : row.keys[i] = col }
    IN  IF at = {} THEN undefined ELSE row.vals[CHOOSE i \in at : TRUE]

Falsy == { Str(""), Num(0), undefined }

\* the inference that just completed ran the general branch on a non-empty sheet
InferredFromRows ==
    /\ Ran("extractGroups")
    /\ lastEvent.arg.file.readable
    /\ Len(lastEvent.arg.file.jsonData) >= 1
    /\ lastEvent.arg.selected \notin FixedControlFn \cup { "Correlations" }

\* C9: for a sheet with at least one row and a category without a fixed list, the
\* groups are the non-falsy cells of the selected column: each once, in the order
\* of their first rows.
C9_GroupsAreColumnValues ==
    InferredFromRows =>
        LET rows == lastEvent.arg.file.jsonData
            col == FirstCandidateHeader(rows[1].keys)
            firstRowOf(v) == CHOOSE i \in DOMAIN rows :
                                /\ CellOf(rows[i], col) = v
                                /\ \A j \in DOMAIN rows : CellOf(rows[j], col) = v => i <= j
        IN  /\ Range(groups) = { CellOf(rows[i], col) : i \in DOMAIN rows } \ Falsy
            /\ \A i, j \in DOMAIN groups : i # j => groups[i] # groups[j]
            /\ \A i, j \in DOMAIN groups :
                  i < j => firstRowOf(groups[i]) < firstRowOf(groups[j])

\* a sheet whose selected column repeats a value, holds a falsy cell and holds
\* two values, the later one first met in the second row
C9_Witness ==
    /\ InferredFromRows
    /\ Len(groups) = 2
    /\ \E i \in DOMAIN lastEvent.arg.file.jsonData :
          CellOf(lastEvent.arg.file.jsonData[i],
                 FirstCandidateHeader(lastEvent.arg.file.jsonData[1].keys)) \in Falsy

\* a completed inference on a sheet with at least one row
InferredFromSheet ==
    /\ Ran("extractGroups")
    /\ lastEvent.arg.file.readable
    /\ Len(lastEvent.arg.file.jsonData) >= 1

\* C10: the grouping column of a sheet is the first header in file order whose
\* lower-case form is a candidate name, and the first header when none is.
C10_FirstMatchingHeader ==
    InferredFromSheet =>
        selectColumn(lastEvent.arg.file.jsonData[1])
            = FirstCandidateHeader(lastEvent.arg.file.jsonData[1].keys)

\* headers [Sample, GROUP]: both are candidates, the first in file order is taken
C10_Witness ==
    /\ InferredFromSheet
    /\ lastEvent.arg.file.jsonData[1].keys = << "Sample", "GROUP" >>
    /\ lastEvent.arg.selected = "QLF"
    /\ groups # << >>
    /\ groups[1] = CellOf(lastEvent.arg.file.jsonData[1], "Sample")

(***************************************************************************)
(* The session with the title and axis-label inputs in use: the callbacks   *)
(* of Next and the three label inputs, with the first sample file as the   *)
(* upload, one Date.now() value and one kind of failure.                   *)
(***************************************************************************)
FormNext ==
    \/ handleFileChange(sampleFiles[1])
    \/ \E r \in BagToSet(reads) : extractGroups(r)
    \/ \E i \in DOMAIN groups, c \in PickerColors : handleColorChange(groups[i], c)
    \/ \E i \in DOMAIN chartTypes(selected) : handleCreateChart(chartTypes(selected)[i])
    \/ \E d \in Bodies : createChartResolves(d, 1, 1)
    \/ createChartFails("status")
    \/ handleClean
    \/ \E type \in ClickedTypes : selectCategory(type)
    \/ \E v \in LabelInputs : setCustomTitle(v)
    \/ \E v \in LabelInputs : setXLabel(v)
    \/ \E v \in LabelInputs : setYLabel(v)

FormSpec == Init /\ [][FormNext]_vars

(***************************************************************************)
(* Properties of uploads, requests and edits.                              *)
(***************************************************************************)
\* C11: when the reader fails on an uploaded file, the step that ends the upload
\* leaves the generic error message in the error field.
C11_ReaderFailureShowsError ==
    (Ran("extractGroups") /\ ~lastEvent.arg.file.readable) => error = errorMessage

\* the step completes, on a readable file, the upload that the step before it began
UploadCompletes ==
    /\ lastEvent = Event("handleFileChange", TRUE)
    /\ lastEvent'.op = "extractGroups"
    /\ lastEvent'.arg.file.readable

\* C12: an upload completed from whatever state ends with the new file present,
\* groups and colours inferred from that file, the error empty and no result URL
\* of an earlier request stored.
C12_UploadEndsFileLoaded ==
    [][ UploadCompletes =>
            LET rows == lastEvent'.arg.file.jsonData
            IN  /\ file' = lastEvent'.arg.file
                /\ groups' = IF Len(rows) = 0 THEN << >>
                                              ELSE uniqueOptionsOf(rows, selected)
                /\ colors' = initialColorsOf(groups')
                /\ error' = ""
                /\ imageSvgUrl' = null
                /\ imageEmfUrl' = null ]_vars

\* the file of the session is that of an upload whose inference has not completed:
\* groups and colours are still those of the previous file (or empty)
UploadPending == \E r \in BagToSet(reads) : r.file = file

\* C13: an upload is atomic for every other callback: while the file is replaced
\* and groups and colours are not yet, no chart request is posted, so that none
\* carries the new file together with the old colours.
C13_UploadIsAtomic ==
    [][ UploadPending => sent' = << >> ]_vars

Settled == { "createChartResolves", "createChartFails" }

\* the step delivers the later of two responses whose requests were in flight
\* together: the step before it delivered the earlier one and left this one waiting
LaterArrives ==
    /\ lastEvent.op \in Settled
    /\ fetches >= 1
    /\ lastEvent'.op \in Settled

\* C14: of two requests in flight together, the response that arrives last decides
\* the result URLs and the error: they are what that response produces on its
\* own, and nothing the earlier response wrote to either field survives.
C14_LastArrivalWins ==
    [][ LaterArrives =>
            IF lastEvent'.op = "createChartResolves"
            THEN /\ error' = ""
                 /\ imageSvgUrl' # null /\ imageEmfUrl' # null
                 /\ imageSvgUrl'.path = lastEvent'.arg.data.img_svg
                 /\ imageEmfUrl'.path = lastEvent'.arg.data.img_emf
            ELSE /\ error' = errorMessage
                 /\ << imageSvgUrl', imageEmfUrl' >> =
                       IF lastEvent.op = "createChartResolves"
                       THEN lastEvent.arg.resultBefore
                       ELSE << imageSvgUrl, imageEmfUrl >> ]_vars

\* C15: a click on the X of the file, in whatever state it is made, leaves the
\* category as it was and file, groups, colours, error, both result URLs, title
\* and both axis labels cleared.
C15_ClearResetsSession ==
    [][ lastEvent'.op = "handleClean" =>
            /\ selected' = selected
            /\ file' = null
            /\ groups' = << >>
            /\ colors' = emptyObject
            /\ error' = ""
            /\ imageSvgUrl' = null
            /\ imageEmfUrl' = null
            /\ customTitle' = << >>
            /\ xLabel' = << >>
            /\ yLabel' = << >> ]_vars

\* a clear made under the second category while a request is outstanding
C15_Witness ==
    /\ Ran("handleClean")
    /\ selected # analysisTypes[1]
    /\ loading = TRUE
    /\ fetches > 0

\* the values the posted form data holds under `name`
SentValues(name) == { sent[i].value : i \in { j \in DOMAIN sent : sent[j].name = name } }

\* C16: every request posted carries exactly one analysis_type, the category
\* active at the click and one of the thirteen, and exactly one chart_type, a
\* variant that chartTypes lists for that category.
C16_RequestMatchesCategory ==
    sent # << >> =>
        /\ SentValues("analysis_type") = { selected }
        /\ selected \in Range(analysisTypes)
        /\ Cardinality({ i \in DOMAIN sent : sent[i].name = "analysis_type" }) = 1
        /\ Cardinality({ i \in DOMAIN sent : sent[i].name = "chart_type" }) = 1
        /\ SentValues("chart_type") \subseteq Range(chartTypes(selected))

\* a request posted after a switch to a category whose variants are not those of
\* the first one
C16_Witness ==
    /\ sent # << >>
    /\ selected # analysisTypes[1]
    /\ SentValues("chart_type") \cap Range(chartTypes(analysisTypes[1])) = {}

(***************************************************************************)
(* The request on its own: every category, the first sample file loaded    *)
(* and inferred, and every text of up to MaxLabelLen characters in each of *)
(* the three label inputs, the title typed last.                            *)
(***************************************************************************)
LabelChars == { " ", "x" }

LabelTexts == UNION { [1..n -> LabelChars] : n \in 0..MaxLabelLen }

RequestInit ==
    /\ selected \in Range(analysisTypes)
    /\ file = sampleFiles[1]
    /\ imageSvgUrl = null
    /\ imageEmfUrl = null
    /\ error = ""
    /\ groups = uniqueOptionsOf(file.jsonData, selected)
    /\ colors = initialColorsOf(groups)
    /\ customTitle \in LabelTexts
    /\ xLabel \in LabelTexts
    /\ yLabel \in LabelTexts
    /\ loading = FALSE
    /\ reads = EmptyBag
    /\ fetches = 0
    /\ sent = << >>
    /\ lastEvent = Event("setCustomTitle", null)

RequestNext ==
    \E i \in DOMAIN chartTypes(selected) : handleCreateChart(chartTypes(selected)[i])

RequestSpec == RequestInit /\ [][RequestNext]_vars

\* the positions of `text` that hold something other than white space
Inked(text) == { i \in DOMAIN text : text[i] # " " }

\* `text` from its first to its last character that is not white space
Stripped(text) ==
    SubSeq(text, CHOOSE i \in Inked(text) : \A j \in Inked(text) : i <= j,
                 CHOOSE i \in Inked(text) : \A j \in Inked(text) : j <= i)

\* the posted form data holds `name` as the claim says it holds the label `text`
LabelSent(name, text) ==
    LET at == { i \in DOMAIN sent : sent[i].name = name }
    IN  IF Inked(text) = {}
        THEN at = {}
        ELSE /\ Cardinality(at) = 1
             /\ \A i \in at : sent[i].value = Stripped(text)

\* C17: a request carries custom_title, x_label and y_label each exactly when the
\* text of its input is non-empty after trimming, and then with the trimmed text;
\* an empty or white-space-only text is not sent.
C17_LabelsSentTrimmed ==
    sent # << >> =>
        /\ LabelSent("custom_title", customTitle)
        /\ LabelSent("x_label", xLabel)
        /\ LabelSent("y_label", yLabel)

\* a request built from a white-space-only title, an x label with a space on
\* either side and an empty y label
C17_Witness ==
    /\ sent # << >>
    /\ customTitle = << " ", " " >>
    /\ xLabel = << " ", "x", " " >>
    /\ yLabel = << >>
    /\ SentValues("x_label") = { << "x" >> }
    /\ SentValues("custom_title") = {}

\* C18: posting a chart request and receiving its response or failure change
\* neither the category nor the file, the groups, the colours, the title or the
\* axis labels: only loading, error and the result URLs.
C18_RequestKeepsInputs ==
    [][ lastEvent'.op \in { "handleCreateChart" } \cup Settled =>
            /\ selected' = selected
            /\ file' = file
            /\ groups' = groups
            /\ colors' = colors
            /\ customTitle' = customTitle
            /\ xLabel' = xLabel
            /\ yLabel' = yLabel ]_vars

\* a response received with a file, groups, an edited colour and a title in place
C18_Witness ==
    /\ Ran("createChartResolves")
    /\ file # null
    /\ groups # << >>
    /\ \E k \in DOMAIN colors : colors[k] # "#000000"
    /\ customTitle # << >>

(***************************************************************************)
(* The session when every request posted is answered: the promise of       *)
(* fetch settles, and the continuation of handleCreateChart is then run.   *)
(* The first sample file is the upload; one Date.now() value, one kind of  *)
(* failure.                                                                *)
(***************************************************************************)
Settle ==
    \/ \E d \in Bodies : createChartResolves(d, 1, 1)
    \/ createChartFails("status")

LiveNext ==
    \/ handleFileChange(sampleFiles[1])
    \/ \E r \in BagToSet(reads) : extractGroups(r)
    \/ \E i \in DOMAIN groups, c \in PickerColors : handleColorChange(groups[i], c)
    \/ \E i \in DOMAIN chartTypes(selected) : handleCreateChart(chartTypes(selected)[i])
    \/ Settle
    \/ handleClean
    \/ \E type \in ClickedTypes : selectCategory(type)

LiveSpec == Init /\ [][LiveNext]_vars /\ WF_vars(Settle)

\* the success path has run: result shown, no error, not loading
Succeeded ==
    /\ Ran("createChartResolves")
    /\ imageSvgUrl # null /\ imageEmfUrl # null
    /\ error = ""
    /\ loading = FALSE

\* the failure path has run: error shown, not loading
Failed ==
    /\ Ran("createChartFails")
    /\ error = errorMessage
    /\ loading = FALSE

C20_ColorEditIsLocal ==
    [][ lastEvent'.op = "handleColorChange" =>
            LET g == ToPropertyKey(lastEvent'.arg[1])
                c == lastEvent'.arg[2]
            IN  /\ g \in DOMAIN colors'
                /\ colors'[g] = c
                /\ DOMAIN colors \subseteq DOMAIN colors'
                /\ DOMAIN colors' \subseteq DOMAIN colors \cup { g }
                /\ \A k \in DOMAIN colors \ { g } : colors'[k] = colors[k]
                /\ << selected, file, imageSvgUrl, imageEmfUrl, error, groups,
                      customTitle, xLabel, yLabel, loading >>'
                   = << selected, file, imageSvgUrl, imageEmfUrl, error, groups,
                        customTitle, xLabel, yLabel, loading >> ]_vars

\* an edit of one of two groups: the other keeps the colour it was seeded with
C20_Witness ==
    /\ Ran("handleColorChange")
    /\ Cardinality(DOMAIN colors) = 2
    /\ colors[ToPropertyKey(lastEvent.arg[1])] = lastEvent.arg[2]
    /\ \E k \in DOMAIN colors : colors[k] = "#000000"

(***************************************************************************)
(* Properties of the session across completions that arrive late.          *)
(***************************************************************************)
\* C21: in every state without a file the group list is empty, the colour
\* assignment is empty and no result URL is stored, also when a read or a request
\* begun before a clear or a category switch completes after it.
C21_IdleHoldsNothing ==
    file = null =>
        /\ groups = << >>
        /\ colors = emptyObject
        /\ imageSvgUrl = null
        /\ imageEmfUrl = null

\* C22: in every state the loading flag is true exactly when at least one chart
\* request is outstanding.
C22_LoadingIffOutstanding == (loading = TRUE) <=> (fetches > 0)

(***************************************************************************)
(* Two uploads on their own: file A was picked under one category, file B  *)
(* after it under the category now active (a switch in between has cleared *)
(* the session), and both calls of extractGroups sit in                    *)
(* file.arrayBuffer(). The reads complete in either order. The files are   *)
(* the sample sheets that have rows.                                       *)
(***************************************************************************)
RaceFiles == { f \in Range(sampleFiles) : f.readable /\ Len(f.jsonData) > 0 }

RaceInit ==
    \E a \in RaceFiles, b \in RaceFiles, type \in Range(analysisTypes) :
       /\ selected \in Range(analysisTypes)
       /\ file = b
       /\ imageSvgUrl = null
       /\ imageEmfUrl = null
       /\ error = ""
       /\ groups = << >>
       /\ colors = emptyObject
       /\ customTitle = << >>
       /\ xLabel = << >>
       /\ yLabel = << >>
       /\ loading = FALSE
       /\ reads = SetToBag({ [file |-> a, selected |-> type] })
                    (+) SetToBag({ [file |-> b, selected |-> selected] })
       /\ fetches = 0
       /\ sent = << >>
       /\ lastEvent = Event("handleFileChange", TRUE)

RaceNext == \E r \in BagToSet(reads) : extractGroups(r)

RaceSpec == RaceInit /\ [][RaceNext]_vars

\* both reads have completed
BothInferred ==
    /\ Ran("extractGroups")
    /\ reads = EmptyBag

\* C23: once the reads of two uploads have both completed, in whichever order,
\* groups and colours are those inferred from the file of the session, the later
\* upload, under the active category.
C23_LatestUploadWins ==
    BothInferred =>
        /\ groups = uniqueOptionsOf(file.jsonData, selected)
        /\ colors = initialColorsOf(groups)

====
